---- MODULE Spec2Model ----
(***************************************************************************)
(* Model of libavcodec/libvorbis.c: the libvorbisenc adapter.              *)
(*                                                                         *)
(* The state is one AVCodecContext with its OggVorbisContext private data, *)
(* over one lifetime: allocated (zeroed) -> oggvorbis_encode_init ->       *)
(* oggvorbis_encode_frame* -> oggvorbis_encode_close.  libvorbis itself is *)
(* opaque: every value it returns is an input of the action that calls it. *)
(* The samples copied into libvorbis (lines 248-255) and the pts written   *)
(* to coded_frame (line 297) are no part of the state: nothing below reads *)
(* them.                                                                   *)
(***************************************************************************)
EXTENDS Integers, Sequences, FiniteSets, TLC

VARIABLES
    pc,               \* "alloc" | "open" | "init_failed" | "aborted" | "closed"
    ret,              \* value returned by the last handler that ran
    lastOp,           \* "none" | "init" | "encode" | "close"
    data,             \* the data argument of the last encode call: "NULL" | "frame" | "none"
    dsp_initialized,  \* OggVorbisContext.dsp_initialized
    eof,              \* OggVorbisContext.eof
    buffer_index,     \* OggVorbisContext.buffer_index
    buffer,           \* OggVorbisContext.buffer[0 .. buffer_index), as runs of bytes
    extradata,        \* avctx->extradata
    extradata_size,   \* avctx->extradata_size
    coded_frame,      \* avctx->coded_frame: "NULL" | "frame"
    frame_size,       \* avctx->frame_size
    offset,           \* the local 'offset' of init when it reached its assert
    hdrs,             \* the three header packets vorbis_analysis_headerout returned
    packets,          \* what the last encode call wrote to the caller's buffer
    packetno,         \* libvorbis' count of packets it has flushed so far
    staged,           \* buffer and buffer_index after the collection loop of the last encode
                      \* call, and the size of the packet it refused (-1: none)
    eosEncode,        \* number of vorbis_analysis_wrote(vd, 0) calls made by encode_frame
    eosClose          \* number of vorbis_analysis_wrote(vd, 0) calls made by encode_close

vars == <<pc, ret, lastOp, data, dsp_initialized, eof, buffer_index, buffer,
          extradata, extradata_size, coded_frame, frame_size, offset, hdrs,
          packets, packetno, staged, eosEncode, eosClose>>

-----------------------------------------------------------------------------
(* Program constants *)

OGGVORBIS_FRAME_SIZE == 64
BUFFER_SIZE == 1024 * 64
\* sizeof(ogg_packet) on an LP64 build: pointer, three longs, two ogg_int64_t
SizeofOggPacket == 48

\* libvorbis error codes (vorbis/codec.h) named by vorbis_error_to_averror
OV_FALSE  == -1
OV_EFAULT == -129
OV_EIMPL  == -130
OV_EINVAL == -131
\* libavutil error codes
AVERROR_BUG     == -1605937854
AVERROR_UNKNOWN == -833925547
AVERROR_EINVAL  == -22
AVERROR_ENOMEM  == -12

-----------------------------------------------------------------------------
(* Bounds of the model *)

\* largest identification / comment / setup header the library returns
MaxHeaderBytes == 510
\* packets libvorbis flushes over the lifetime of one context
MaxPackets == 3
\* blocks vorbis_analysis_blockout hands out within one encode call
MaxBlocks == 2
\* packets vorbis_bitrate_flushpacket hands out within one encode call
MaxFlush == 2
\* failed end-of-stream notifications over the lifetime of one context
MaxEosFail == 1
\* size of a small packet, and of the caller's buffer when it is small
SmallBytes == 100

\* values the library returns on failure
LibErrs == {OV_FALSE, OV_EFAULT, OV_EIMPL, OV_EINVAL}

Min(a, b) == IF a < b THEN a ELSE b
Max(a, b) == IF a > b THEN a ELSE b

-----------------------------------------------------------------------------
(* vorbis_error_to_averror *)

vorbis_error_to_averror(ov_err) ==
    CASE ov_err = OV_EFAULT -> AVERROR_BUG
      [] ov_err = OV_EINVAL -> AVERROR_EINVAL
      [] ov_err = OV_EIMPL  -> AVERROR_EINVAL
      [] OTHER              -> AVERROR_UNKNOWN

-----------------------------------------------------------------------------
(* oggvorbis_init_encoder                                                  *)
(* cfg: the fields of avctx and s the function reads;                      *)
(* lib: the value each libvorbisenc call returns, were it made.            *)

Cfgs ==
    [qscale : BOOLEAN, bit_rate : {0, 128000}, rc_min_rate : {0, 64000},
     rc_max_rate : {0}, cutoff : {0, 16000}, iblock : {0, -5}]

LibInitCalls == {"setup_vbr", "setup_managed", "ctl_ratemanage",
                 "ctl_lowpass", "ctl_iblock", "setup_init"}

\* the library's answers: all calls succeed, or exactly one named call fails
LibAnswers(Errs) ==
    {[c \in LibInitCalls |-> 0]} \cup
    {[c \in LibInitCalls |-> IF c = f THEN e ELSE 0] : f \in LibInitCalls, e \in Errs}

oggvorbis_init_encoder(cfg, lib) ==
    LET vbr     == cfg.qscale \/ cfg.bit_rate = 0
        minrate == IF cfg.rc_min_rate > 0 THEN cfg.rc_min_rate ELSE -1
        maxrate == IF cfg.rc_max_rate > 0 THEN cfg.rc_max_rate ELSE -1
        \* the calls made, in order, up to the first that returns non-zero
        order   == (IF vbr THEN <<"setup_vbr">>
                    ELSE <<"setup_managed">> \o
                         (IF minrate = -1 /\ maxrate = -1
                          THEN <<"ctl_ratemanage">> ELSE <<>>)) \o
                   (IF cfg.cutoff > 0 THEN <<"ctl_lowpass">> ELSE <<>>) \o
                   (IF cfg.iblock # 0 THEN <<"ctl_iblock">> ELSE <<>>) \o
                   <<"setup_init">>
        failing == {i \in 1..Len(order) : lib[order[i]] # 0}
    IN  IF failing = {} THEN 0
        ELSE LET first == CHOOSE i \in failing : \A j \in failing : i <= j
             IN  vorbis_error_to_averror(lib[order[first]])

-----------------------------------------------------------------------------
(* xiph_len, av_xiphlacing and the extradata buffer                        *)

\* a lacing that counts a byte per 256, not per 255
xiph_len_Div256(l) == 1 + (l \div 256) + l

xiph_len(l) == 1 + (l \div 255) + l

\* av_xiphlacing(s, v): the bytes it writes; it returns how many
RECURSIVE av_xiphlacing(_)
av_xiphlacing(v) ==
    IF v >= 255 THEN <<255>> \o av_xiphlacing(v - 255) ELSE <<v>>

\* contents of a header packet: 'k' tells the three packets apart
PacketBytes(k, n) == [i \in 1..n |-> (k * 64 + i) % 256]

\* av_malloc(n): uninitialised memory, every byte marked -1
Uninit(n) == [i \in 1..n |-> -1]

\* memcpy(&p[off], bs, Len(bs)); a write past the end lands outside the block
WriteBytes(p, off, bs) ==
    LET q == IF Len(p) >= off THEN p ELSE p \o Uninit(off - Len(p))
    IN  SubSeq(q, 1, off) \o bs \o SubSeq(q, off + Len(bs) + 1, Len(q))

NullData == [allocated |-> FALSE, bytes |-> <<>>]

-----------------------------------------------------------------------------
(* oggvorbis_encode_close                                                  *)

\* close that notifies the end of stream whatever dsp_initialized is
CloseNotifiesEof_Always(dsp) == TRUE

\* "if (s->dsp_initialized)": whether close calls vorbis_analysis_wrote(&s->vd, 0)
CloseNotifiesEof(dsp) == dsp # 0

\* av_freep(&avctx->coded_frame)
FreedFrame == "NULL"
\* av_free(avctx->extradata): the block is freed, the pointer is left as it was
FreedExtradata_Dangling(ed) == ed
\* av_freep(&avctx->extradata), avctx->extradata being ed
FreedExtradata(ed) == NullData

\* the body of close, run with dsp_initialized = dsp and avctx->extradata = ed;
\* it returns 0
CloseBody(dsp, ed) ==
    /\ eosClose' = IF CloseNotifiesEof(dsp) THEN eosClose + 1 ELSE eosClose
    /\ coded_frame' = FreedFrame
    /\ extradata' = FreedExtradata(ed)

oggvorbis_encode_close ==
    /\ pc = "open"
    /\ CloseBody(dsp_initialized, extradata)
    /\ pc' = "closed"
    /\ ret' = 0
    /\ lastOp' = "close"
    /\ UNCHANGED <<data, dsp_initialized, eof, buffer_index, buffer, extradata_size,
                   frame_size, offset, hdrs, packets, packetno, staged, eosEncode>>

-----------------------------------------------------------------------------
(* oggvorbis_encode_init                                                   *)

\* "goto error": close, then return r
InitError(r, dsp, ed, size, fsize, off, h) ==
    /\ CloseBody(dsp, ed)
    /\ dsp_initialized' = dsp
    /\ extradata_size' = size
    /\ frame_size' = fsize
    /\ offset' = off
    /\ hdrs' = h
    /\ ret' = r
    /\ pc' = "init_failed"

\* lines 197-199
ExtradataSize(h) == 1 + xiph_len(h.id) + xiph_len(h.comm) + h.code

\* lines 206-215: the block after the writes, and the final offset
FillExtradata(size, h) ==
    LET p0 == WriteBytes(Uninit(size), 0, <<2>>)
        o1 == 1
        l1 == av_xiphlacing(h.id)
        p1 == WriteBytes(p0, o1, l1)
        o2 == o1 + Len(l1)
        l2 == av_xiphlacing(h.comm)
        p2 == WriteBytes(p1, o2, l2)
        o3 == o2 + Len(l2)
        p3 == WriteBytes(p2, o3, PacketBytes(1, h.id))
        o4 == o3 + h.id
        p4 == WriteBytes(p3, o4, PacketBytes(2, h.comm))
        o5 == o4 + h.comm
        p5 == WriteBytes(p4, o5, PacketBytes(3, h.code))
        o6 == o5 + h.code
    IN  [bytes |-> p5, offset |-> o6]

NoHdrs == [id |-> 0, comm |-> 0, code |-> 0]

oggvorbis_encode_init(CfgSet, Sizes) ==
    /\ pc = "alloc"
    /\ lastOp' = "init"
    /\ UNCHANGED <<data, eof, buffer_index, buffer, packets, packetno, staged, eosEncode>>
    /\ \/ \* lines 174-177: oggvorbis_init_encoder fails
          \E cfg \in CfgSet, lib \in LibAnswers(LibErrs) :
             /\ oggvorbis_init_encoder(cfg, lib) # 0
             /\ InitError(oggvorbis_init_encoder(cfg, lib), dsp_initialized, extradata,
                          extradata_size, frame_size, offset, hdrs)
       \/ \* it returns 0
          /\ {x \in CfgSet \X LibAnswers(LibErrs) :
                oggvorbis_init_encoder(x[1], x[2]) = 0} # {}
          /\ \E analysis_init \in {0} \cup LibErrs :
             IF analysis_init # 0
             THEN InitError(vorbis_error_to_averror(analysis_init), dsp_initialized, extradata,
                            extradata_size, frame_size, offset, hdrs)
             ELSE \E block_init \in {0} \cup LibErrs :
               IF block_init # 0
               THEN InitError(vorbis_error_to_averror(block_init), 1, extradata,
                              extradata_size, frame_size, offset, hdrs)
               ELSE \E headerout \in {0} \cup LibErrs :
                 IF headerout # 0
                 THEN InitError(vorbis_error_to_averror(headerout), 1, extradata,
                                extradata_size, frame_size, offset, hdrs)
                 ELSE \E h \in [id : Sizes, comm : Sizes, code : Sizes] :
                      \E size \in {ExtradataSize(h)} :
                      \E malloc_ok \in BOOLEAN :
                   IF ~malloc_ok
                   THEN InitError(AVERROR_ENOMEM, 1, NullData, size, frame_size, offset, h)
                   ELSE \E f \in {FillExtradata(size, h)} :
                     IF f.offset # size
                     THEN \* assert(offset == avctx->extradata_size) fails: abort()
                          /\ pc' = "aborted"
                          /\ extradata' = [allocated |-> TRUE, bytes |-> f.bytes]
                          /\ extradata_size' = size
                          /\ offset' = f.offset
                          /\ hdrs' = h
                          /\ dsp_initialized' = 1
                          /\ UNCHANGED <<ret, coded_frame, frame_size, eosClose>>
                     ELSE \E frame_ok \in BOOLEAN :
                       IF ~frame_ok
                       THEN InitError(AVERROR_ENOMEM, 1,
                                      [allocated |-> TRUE, bytes |-> f.bytes],
                                      size, OGGVORBIS_FRAME_SIZE, f.offset, h)
                       ELSE /\ pc' = "open"
                            /\ ret' = 0
                            /\ extradata' = [allocated |-> TRUE, bytes |-> f.bytes]
                            /\ extradata_size' = size
                            /\ offset' = f.offset
                            /\ hdrs' = h
                            /\ dsp_initialized' = 1
                            /\ frame_size' = OGGVORBIS_FRAME_SIZE
                            /\ coded_frame' = "frame"
                            /\ UNCHANGED eosClose

-----------------------------------------------------------------------------
(* The staging buffer s->buffer[0 .. buffer_index)                         *)
(*                                                                         *)
(* It is kept as a sequence of runs of bytes.  A run is a whole or partial *)
(* ogg_packet struct ("hdr", with the struct's bytes and packetno fields), *)
(* a stretch of the payload of packet 'no' ("data"), or bytes nothing has  *)
(* written ("stale").                                                      *)

Run(kind, len, bytes, no) == [kind |-> kind, len |-> len, bytes |-> bytes, no |-> no]

RECURSIVE TotalLen(_)
TotalLen(runs) == IF runs = <<>> THEN 0 ELSE Head(runs).len + TotalLen(Tail(runs))

\* the first n bytes of runs
RECURSIVE TakeBytes(_, _)
TakeBytes(runs, n) ==
    IF n <= 0 THEN <<>>
    ELSE IF runs = <<>> THEN <<Run("stale", n, 0, 0)>>
    ELSE LET r == Head(runs) IN
         IF r.len <= n THEN <<r>> \o TakeBytes(Tail(runs), n - r.len)
         ELSE <<[r EXCEPT !.len = n]>>

\* runs without its first n bytes
RECURSIVE DropBytes(_, _)
DropBytes(runs, n) ==
    IF n <= 0 \/ runs = <<>> THEN runs
    ELSE LET r == Head(runs) IN
         IF r.len <= n THEN DropBytes(Tail(runs), n - r.len)
         ELSE <<[r EXCEPT !.len = r.len - n]>> \o Tail(runs)

\* memcpy(s->buffer + at, src, TotalLen(src)) on a buffer whose first 'at' bytes count
CopyIn(runs, at, src) == TakeBytes(runs, at) \o src

\* the ogg_packet struct and the payload of the packet libvorbis hands out
OpStruct(op) == <<Run("hdr", SizeofOggPacket, op.bytes, op.packetno)>>
OpPayload(op) == IF op.bytes = 0 THEN <<>> ELSE <<Run("data", op.bytes, 0, op.packetno)>>

\* the test without the size of the struct
BufferOverflow_PayloadOnly(index, bytes) == index + bytes > BUFFER_SIZE

\* line 274: the packet does not fit
BufferOverflow(index, bytes) == index + SizeofOggPacket + bytes > BUFFER_SIZE

\* lines 278-281
AppendPacket(st, op) ==
    LET b1 == CopyIn(st.buf, st.index, OpStruct(op))
        i1 == st.index + SizeofOggPacket
        b2 == CopyIn(b1, i1, OpPayload(op))
        i2 == i1 + op.bytes
    IN  [st EXCEPT !.buf = b2, !.index = i2]

\* lines 273-282: the packets of one block; 'flush' is what
\* vorbis_bitrate_flushpacket returns once it has no packet left
RECURSIVE FlushLoop(_, _, _)
FlushLoop(st, pkts, flush) ==
    IF pkts = <<>> THEN [st |-> st, ret |-> flush, overflow |-> FALSE, refused |-> -1]
    ELSE LET op  == [bytes |-> Head(pkts), packetno |-> st.no]
             st1 == [st EXCEPT !.no = st.no + 1]
         IN  IF BufferOverflow(st.index, op.bytes)
             THEN [st |-> st1, ret |-> 1, overflow |-> TRUE, refused |-> op.bytes]
             ELSE FlushLoop(AppendPacket(st1, op), Tail(pkts), flush)

\* lines 266-285: 'blocks' are the blocks vorbis_analysis_blockout hands out
\* (it returns 1 for each), 'final' is what it returns after the last
RECURSIVE BlockLoop(_, _, _)
BlockLoop(st, blocks, final) ==
    IF blocks = <<>> THEN [st |-> st, ret |-> final, overflow |-> FALSE, refused |-> -1]
    ELSE LET b == Head(blocks) IN
         IF b.analysis < 0
         THEN [st |-> st, ret |-> b.analysis, overflow |-> FALSE, refused |-> -1]
         ELSE IF b.addblock < 0
         THEN [st |-> st, ret |-> b.addblock, overflow |-> FALSE, refused |-> -1]
         ELSE LET r == FlushLoop(st, b.pkts, b.flush) IN
              IF r.overflow \/ r.ret < 0 THEN r
              ELSE BlockLoop(r.st, Tail(blocks), final)

\* line 295: op2->bytes, read from the struct at the start of the buffer
HeadBytes(runs) ==
    IF runs # <<>> /\ Head(runs).kind = "hdr" /\ Head(runs).len = SizeofOggPacket
    THEN Head(runs).bytes ELSE 0

\* the index moved back by the payload alone
IndexAfterOutput_PayloadOnly(index, pkt_size) == index - pkt_size

\* line 305: buffer_index after the packet is handed out
IndexAfterOutput(index, pkt_size) == index - (pkt_size + SizeofOggPacket)

\* lines 306-307: memmove(s->buffer, s->buffer + pkt_size + sizeof(ogg_packet), index)
MoveDown(runs, pkt_size, index) ==
    TakeBytes(DropBytes(runs, pkt_size + SizeofOggPacket), index)

\* line 304: memcpy(packets, op2->packet, pkt_size)
CopyOut(runs, pkt_size) == TakeBytes(DropBytes(runs, SizeofOggPacket), pkt_size)

-----------------------------------------------------------------------------
(* What libvorbis does during one encode call                              *)

PacketSizes == {0, SmallBytes, BUFFER_SIZE - SizeofOggPacket}
BufSizes == {SmallBytes, BUFFER_SIZE}
EncErrs == {OV_EFAULT, OV_FALSE}

\* sequences over S of length at most n
RECURSIVE SeqsUpTo(_, _)
SeqsUpTo(S, n) ==
    IF n <= 0 THEN {<<>>}
    ELSE LET shorter == SeqsUpTo(S, n - 1)
         IN  shorter \cup {Append(q, x) : q \in {t \in shorter : Len(t) = n - 1}, x \in S}

GoodBlock(pkts) == [analysis |-> 0, addblock |-> 0, pkts |-> pkts, flush |-> 0]

\* a block during which one library call fails
BadBlocks(n) ==
    {[analysis |-> e, addblock |-> 0, pkts |-> <<>>, flush |-> 0] : e \in EncErrs} \cup
    {[analysis |-> 0, addblock |-> e, pkts |-> <<>>, flush |-> 0] : e \in EncErrs} \cup
    {[analysis |-> 0, addblock |-> 0, pkts |-> q, flush |-> e] :
        q \in SeqsUpTo(PacketSizes, n), e \in EncErrs}

RECURSIVE CountPkts(_)
CountPkts(blocks) ==
    IF blocks = <<>> THEN 0 ELSE Len(Head(blocks).pkts) + CountPkts(Tail(blocks))

\* every run of the library that flushes at most n packets, and at most
\* MaxFlush in all: blocks that go well, then either the end (blockout
\* returns 0), or a failing blockout, or a block in which a call fails
Scripts(n) ==
    LET m      == Min(n, MaxFlush)
        good   == {GoodBlock(q) : q \in SeqsUpTo(PacketSizes, m)}
        prefix == {bs \in SeqsUpTo(good, MaxBlocks) : CountPkts(bs) <= m}
    IN  {[blocks |-> bs, final |-> f] : bs \in prefix, f \in {0} \cup EncErrs} \cup
        {sc \in {[blocks |-> Append(bs, b), final |-> 0] :
                    bs \in {t \in prefix : Len(t) < MaxBlocks}, b \in BadBlocks(m)} :
            CountPkts(sc.blocks) <= m}

ScriptTable == {[n |-> n, scripts |-> Scripts(n)] : n \in 0..MaxPackets}
ScriptsFor(n) == (CHOOSE e \in ScriptTable : e.n = n).scripts

-----------------------------------------------------------------------------
(* oggvorbis_encode_frame                                                  *)

\* a notification on every call with data == NULL, eof or not
EncodeNotifiesEof_NoFlag(d, e) == d = "NULL"

\* lines 258-260: a call with data == NULL notifies libvorbis of the end of stream
EncodeNotifiesEof(d, e) == d = "NULL" /\ e = 0

\* lines 289-310, entered with the buffer the collection loop left
OutputPacket(st, buf_size) ==
    LET pkt_size == HeadBytes(st.buf) IN
    IF st.index = 0
    THEN [ret |-> 0, packets |-> <<>>, index |-> st.index, buf |-> st.buf]
    ELSE IF pkt_size > buf_size
    THEN [ret |-> -1, packets |-> <<>>, index |-> st.index, buf |-> st.buf]
    ELSE [ret |-> pkt_size,
          packets |-> CopyOut(st.buf, pkt_size),
          index |-> IndexAfterOutput(st.index, pkt_size),
          buf |-> MoveDown(st.buf, pkt_size, IndexAfterOutput(st.index, pkt_size))]

\* lines 265-310: r is what the collection loop left
AfterCollect(r, buf_size) ==
    IF r.overflow
    THEN [ret |-> -1, packets |-> <<>>, index |-> r.st.index, buf |-> r.st.buf]
    ELSE IF r.ret < 0
    THEN [ret |-> vorbis_error_to_averror(r.ret), packets |-> <<>>,
          index |-> r.st.index, buf |-> r.st.buf]
    ELSE OutputPacket(r.st, buf_size)

oggvorbis_encode_frame ==
    /\ pc = "open"
    /\ lastOp' = "encode"
    /\ UNCHANGED <<pc, dsp_initialized, extradata, extradata_size, coded_frame,
                   frame_size, offset, hdrs, eosClose>>
    /\ \/ \* vorbis_analysis_wrote is called and fails: lines 256-257, 260-261
          \E d \in {"NULL", "frame"}, wrote \in EncErrs :
             /\ d = "frame" \/ EncodeNotifiesEof(d, eof)
             /\ EncodeNotifiesEof(d, eof) => eosEncode < MaxEosFail
             /\ data' = d
             /\ eosEncode' = IF EncodeNotifiesEof(d, eof) THEN eosEncode + 1 ELSE eosEncode
             /\ ret' = vorbis_error_to_averror(wrote)
             /\ staged' = [index |-> buffer_index, buf |-> buffer, refused |-> -1]
             /\ packets' = <<>>
             /\ UNCHANGED <<eof, buffer_index, buffer, packetno>>
       \/ \* it succeeds, or is not called
          \E script \in ScriptsFor(MaxPackets - packetno) :
          \E r \in {BlockLoop([index |-> buffer_index, buf |-> buffer, no |-> packetno],
                              script.blocks, script.final)} :
          \E d \in {"NULL", "frame"}, buf_size \in BufSizes :
          \E out \in {AfterCollect(r, buf_size)} :
             /\ data' = d
             /\ eosEncode' = IF EncodeNotifiesEof(d, eof) THEN eosEncode + 1 ELSE eosEncode
             /\ eof' = IF d = "NULL" THEN 1 ELSE eof
             /\ packetno' = r.st.no
             /\ staged' = [index |-> r.st.index, buf |-> r.st.buf, refused |-> r.refused]
             /\ ret' = out.ret
             /\ packets' = out.packets
             /\ buffer_index' = out.index
             /\ buffer' = out.buf

-----------------------------------------------------------------------------
(* Specifications *)

Init ==
    /\ pc = "alloc"
    /\ ret = 0
    /\ lastOp = "none"
    /\ data = "none"
    /\ dsp_initialized = 0
    /\ eof = 0
    /\ buffer_index = 0
    /\ buffer = <<>>
    /\ extradata = NullData
    /\ extradata_size = 0
    /\ coded_frame = "NULL"
    /\ frame_size = 0
    /\ offset = 0
    /\ hdrs = NoHdrs
    /\ packets = <<>>
    /\ packetno = 0
    /\ staged = [index |-> 0, buf |-> <<>>, refused |-> -1]
    /\ eosEncode = 0
    /\ eosClose = 0

\* header sizes around the lacing boundary of 255
HeaderSizes == {0, 1, 254, 255, 256, MaxHeaderBytes}
FewHeaderSizes == {30}
FewCfgs == {c \in Cfgs : c.rc_min_rate = 0 /\ c.cutoff = 0 /\ c.iblock = 0}

InitContext == oggvorbis_encode_init(FewCfgs, FewHeaderSizes)
InitHeaders == oggvorbis_encode_init(Cfgs, HeaderSizes)

Next == InitContext \/ oggvorbis_encode_frame \/ oggvorbis_encode_close
Spec == Init /\ [][Next]_vars

NextHeaders == InitHeaders \/ oggvorbis_encode_close
SpecHeaders == Init /\ [][NextHeaders]_vars

-----------------------------------------------------------------------------
(* Structure of the state *)

TypeOK ==
    /\ pc \in {"alloc", "open", "init_failed", "aborted", "closed"}
    /\ lastOp \in {"none", "init", "encode", "close"}
    /\ data \in {"none", "NULL", "frame"}
    /\ dsp_initialized \in {0, 1}
    /\ eof \in {0, 1}
    /\ coded_frame \in {"NULL", "frame"}
    /\ packetno \in 0..MaxPackets
    /\ TotalLen(buffer) = buffer_index
    /\ TotalLen(staged.buf) = staged.index
    /\ \A i \in DOMAIN buffer : buffer[i].kind # "stale"

\* the struct at the head of a record of the staging buffer, and its payload
RecordRuns(hd) == OpStruct([bytes |-> hd.bytes, packetno |-> hd.no]) \o
                  OpPayload([bytes |-> hd.bytes, packetno |-> hd.no])

-----------------------------------------------------------------------------
(* C1: the staging position stays within the staging buffer, 0 <=          *)
(* buffer_index <= BUFFER_SIZE, after every encode call, and a packet the  *)
(* library flushed is refused exactly when buffer_index +                  *)
(* sizeof(ogg_packet) + op.bytes > BUFFER_SIZE: the call then returns -1   *)
(* and buffer_index is what it was before the refused append.              *)
C1_BufferIndexInBounds ==
    /\ 0 <= buffer_index /\ buffer_index <= BUFFER_SIZE
    /\ 0 <= staged.index /\ staged.index <= BUFFER_SIZE
    /\ TotalLen(buffer) = buffer_index
    /\ (lastOp = "encode" /\ staged.refused >= 0) =>
          /\ staged.index + SizeofOggPacket + staged.refused > BUFFER_SIZE
          /\ ret = -1
          /\ buffer_index = staged.index
          /\ buffer = staged.buf

\* a packet is refused while the buffer is full to its last byte
C1_Witness ==
    /\ lastOp = "encode"
    /\ staged.refused >= 0
    /\ ret = -1
    /\ buffer_index = BUFFER_SIZE

-----------------------------------------------------------------------------
(* C2: a successful encode call hands out at most one packet.  If the      *)
(* staging buffer is not empty once the library's packets are collected,   *)
(* the call copies out the payload of the oldest staged packet, returns    *)
(* its size and removes that record (struct and payload) and nothing else; *)
(* if it is empty the call returns 0 and writes nothing.                   *)
C2_OnePacketPerCall ==
    (lastOp = "encode" /\ ret >= 0) =>
        IF staged.index # 0
        THEN LET hd == Head(staged.buf) IN
             /\ hd.kind = "hdr" /\ hd.len = SizeofOggPacket
             /\ \A i \in DOMAIN staged.buf : staged.buf[i].no >= hd.no
             /\ ret = hd.bytes
             /\ packets = OpPayload([bytes |-> hd.bytes, packetno |-> hd.no])
             /\ staged.buf = RecordRuns(hd) \o buffer
             /\ buffer_index = staged.index - (SizeofOggPacket + hd.bytes)
        ELSE /\ ret = 0
             /\ packets = <<>>
             /\ buffer = <<>>
             /\ buffer_index = 0

\* a packet was handed out while a younger one stays staged
C2_Witness ==
    /\ lastOp = "encode"
    /\ ret > 0
    /\ packets # <<>>
    /\ buffer_index > 0
    /\ Len(staged.buf) > Len(buffer)

-----------------------------------------------------------------------------
(* C3: for the header sizes the library returns, init lays the extradata   *)
(* out as byte 2, the Xiph lacing of the identification header's length,   *)
(* the Xiph lacing of the comment header's length, then the                *)
(* identification, comment and setup packets; the bytes written are        *)
(* extradata_size = 1 + xiph_len(id) + xiph_len(comm) + code of them, so   *)
(* the assert offset == extradata_size holds.                              *)

\* the Xiph lacing of n: n \div 255 bytes of 255, then n % 255
Lacing(n) == [i \in 1..(n \div 255) |-> 255] \o <<n % 255>>

C3_ExtradataLayout ==
    /\ pc # "aborted"
    /\ (lastOp = "init" /\ pc = "open") =>
          /\ extradata.allocated
          /\ extradata.bytes = <<2>> \o Lacing(hdrs.id) \o Lacing(hdrs.comm) \o
                               PacketBytes(1, hdrs.id) \o PacketBytes(2, hdrs.comm) \o
                               PacketBytes(3, hdrs.code)
          /\ extradata_size = 1 + (1 + hdrs.id \div 255 + hdrs.id) +
                                  (1 + hdrs.comm \div 255 + hdrs.comm) + hdrs.code
          /\ Len(extradata.bytes) = extradata_size
          /\ offset = extradata_size

\* init succeeded with header lengths on both sides of a lacing boundary
C3_Witness ==
    /\ lastOp = "init" /\ pc = "open"
    /\ hdrs.id = 255 /\ hdrs.comm = 254 /\ hdrs.code = 256
    /\ offset = 769

-----------------------------------------------------------------------------
(* C4: an init in which a step fails runs close and returns non-zero, with *)
(* avctx->extradata and avctx->coded_frame NULL on return; init returns 0  *)
(* only when every step succeeded, and then frame_size is 64 and extradata *)
(* and coded_frame are allocated.                                          *)
C4_InitAllOrNothing ==
    /\ lastOp = "init" => pc \in {"init_failed", "open", "aborted"}
    /\ pc = "init_failed" =>
          /\ ret # 0
          /\ extradata = NullData
          /\ coded_frame = "NULL"
    /\ (lastOp = "init" /\ pc # "aborted" /\ ret = 0) =>
          /\ pc = "open"
          /\ frame_size = OGGVORBIS_FRAME_SIZE
          /\ extradata.allocated
          /\ coded_frame = "frame"
          /\ dsp_initialized = 1

\* the last step, the allocation of coded_frame, failed: the extradata that
\* was already filled is freed again
C4_Witness ==
    /\ pc = "init_failed"
    /\ frame_size = OGGVORBIS_FRAME_SIZE
    /\ extradata_size > 0
    /\ ret = AVERROR_ENOMEM
    /\ extradata = NullData

-----------------------------------------------------------------------------
(* C5, as stated: encode issues the end-of-stream notification at most     *)
(* once over any sequence of calls.                                        *)
C5_NotifiedAtMostOnce == eosEncode <= 1

(* C5, amended: a NULL-data call issues the notification exactly when eof  *)
(* is 0; eof becomes 1 when it succeeds and stays 0 when it fails, so the  *)
(* next NULL-data call issues it again; once eof is 1 no call issues it,   *)
(* and eof never returns to 0.  Calls with data never issue it.            *)
C5_NotifiedUntilSuccess ==
    [][ /\ (lastOp' = "encode" /\ data' = "NULL" /\ eof = 0) =>
              /\ eosEncode' = eosEncode + 1
              /\ eof' = 0 => ret' < 0 /\ packetno' = packetno /\ buffer' = buffer
        /\ (lastOp' = "encode" /\ data' = "NULL" /\ eof = 1) => eosEncode' = eosEncode
        /\ (lastOp' = "encode" /\ data' = "frame") =>
              eosEncode' = eosEncode /\ eof' = eof
        /\ eof = 1 => eof' = 1 /\ eosEncode' = eosEncode
        /\ lastOp' # "encode" => eosEncode' = eosEncode /\ eof' = eof
      ]_vars

\* a notification failed, a later NULL-data call issued it again and it succeeded
C5_Witness ==
    /\ lastOp = "encode" /\ data = "NULL"
    /\ eof = 1
    /\ eosEncode = 2

-----------------------------------------------------------------------------
(* C6: close issues the end-of-stream notification if and only if          *)
(* dsp_initialized is set, whether or not an encode call has signalled the *)
(* end of stream before; an init that fails before vorbis_analysis_init    *)
(* succeeded closes without it.                                            *)
C6_CloseNotifiesIffDsp ==
    /\ pc \in {"alloc", "open", "aborted"} => eosClose = 0
    /\ pc \in {"closed", "init_failed"} =>
          eosClose = (IF dsp_initialized = 1 THEN 1 ELSE 0)
    /\ pc = "closed" => dsp_initialized = 1
    /\ dsp_initialized = 1 => lastOp # "none"

\* close notified although an encode call had already done so
C6_Witness ==
    /\ pc = "closed"
    /\ eof = 1 /\ eosEncode >= 1
    /\ eosClose = 1

\* init failed before vorbis_analysis_init succeeded: close did not notify
C6_WitnessNoDsp ==
    /\ pc = "init_failed"
    /\ dsp_initialized = 0
    /\ eosClose = 0

====
